---- MODULE Spec2Model ----
(***************************************************************************)
(* Model of the mock API utility layer of the console                      *)
(* (src/mock-api/msw/util.ts): the pagination helper, role resolution and  *)
(* IP range containment, validation helpers and the synthetic metrics      *)
(* generator; of the OxQL result shaping                                   *)
(* (src/app/components/oxql-metrics/util.ts); and of the unit test hooks   *)
(* (src/test/unit/setup.ts).  Each area has its own specification over the *)
(* shared variables.                                                       *)
(***************************************************************************)
EXTENDS Integers, Sequences, FiniteSets, TLC

VARIABLES
    items,      \* the collection handed to paginated (I[], each with an id)
    params,     \* the PaginateOptions of the last call of paginated
    result,     \* the ResultsPage the last call of paginated returned
    visited,    \* concatenation of the pages a token chain has returned
    calls,      \* number of calls of paginated made by the chain
    chain,      \* "idle" | "chaining" | "done" | "probe"
    db,         \* the mock database: users, userGroups, groupMemberships,
                \* roleAssignments
    op,         \* the last call of a helper: its name, its arguments and
                \* what it returned or threw
    gen,        \* the metrics request being served: the position in
                \* handleMetrics / generateUtilization, the generator, the
                \* values generated so far, the response
    suite       \* the unit test run: the position in the vitest hooks

pageVars == <<items, params, result, visited, calls, chain>>
auxVars == <<gen, suite>>
vars == <<items, params, result, visited, calls, chain, db, op, gen, suite>>

(***************************************************************************)
(* Bounds of the model                                                     *)
(***************************************************************************)
MaxItems == 3
MaxLimit == 3
MaxCalls == 5
MaxAssignments == 2
MaxRanges == 2
MaxSeries == 2
MaxPoints == 2
MaxCollection == 2
MaxTests == 3

(***************************************************************************)
(* Values                                                                  *)
(***************************************************************************)
\* null / undefined of an optional value; Some(x) is a present value
None == <<>>
Some(x) == <<x>>

\* item ids are strings; "" is the one falsy string of JavaScript
Ids == {"", "a", "b", "c"}
\* page tokens a caller may send: any id, or a string that is no item's id
Tokens == Ids \cup {"zz"}
Limits == {None} \cup {Some(n) : n \in 0..MaxLimit}

Min(S) == CHOOSE x \in S : \A y \in S : x <= y

\* an item: its id, and a name that tells apart objects with equal ids
\* (the k-th object of the collection is named k, as repeat() names copies)
ItemsOf(ids) == [k \in 1..Len(ids) |-> [id |-> ids[k], name |-> k]]

IdSeqs == UNION {[1..n -> Ids] : n \in 0..MaxItems}

\* repeat(obj, n): n copies of an object whose id is "", with ids "0".."n-1"
repeat(n) == ItemsOf([k \in 1..n |-> ToString(k - 1)])

(***************************************************************************)
(* paginated                                                               *)
(***************************************************************************)
DEFAULT_LIMIT == 100

\* mutant: a missing limit means no limit
LimitOfNoDefault(p) == IF p.limit = None \/ p.limit[1] = 0 THEN 1000000 ELSE p.limit[1]

\* params.limit || 100 : null, undefined and 0 are falsy
LimitOf(p) == IF p.limit = None \/ p.limit[1] = 0 THEN DEFAULT_LIMIT ELSE p.limit[1]

\* pageToken ? ... : the token is used only when it is a non-empty string
TokenGiven(p) == p.pageToken # None /\ p.pageToken[1] # ""

\* Array.prototype.findIndex((i) => i.id === id): 0-based, -1 when absent
FindIndex(coll, id) ==
    LET hits == {k \in 1..Len(coll) : coll[k].id = id}
    IN  IF hits = {} THEN -1 ELSE Min(hits) - 1

\* Array.prototype.slice(from, to) for 0 <= from, 0 <= to
Slice(coll, from, to) ==
    LET last == IF to < Len(coll) THEN to ELSE Len(coll)
    IN  IF from >= last THEN <<>> ELSE SubSeq(coll, from + 1, last)

\* mutant: the page starts after the item the token names
StartIndexAfter(p, coll) ==
    LET found == IF TokenGiven(p) THEN FindIndex(coll, p.pageToken[1]) + 1 ELSE 0
    IN  IF found < 0 THEN 0 ELSE found

\* mutant: a token that matches no item yields the (empty) page past the end
StartIndexMissToEnd(p, coll) ==
    LET found == IF TokenGiven(p) THEN FindIndex(coll, p.pageToken[1]) ELSE 0
    IN  IF found < 0 THEN Len(coll) ELSE found

\* let startIndex = pageToken ? items.findIndex(...) : 0
\* startIndex = startIndex < 0 ? 0 : startIndex
StartIndex(p, coll) ==
    LET found == IF TokenGiven(p) THEN FindIndex(coll, p.pageToken[1]) ELSE 0
    IN  IF found < 0 THEN 0 ELSE found

\* mutant: the token is the id of the last item of the returned page
PaginatedTokenLast(p, coll) ==
    LET limit == LimitOf(p)
        startIndex == StartIndex(p, coll)
    IN  IF startIndex > Len(coll)
        THEN [items |-> <<>>, nextPage |-> None]
        ELSE IF limit + startIndex >= Len(coll)
        THEN [items |-> Slice(coll, startIndex, Len(coll)), nextPage |-> None]
        ELSE [items |-> Slice(coll, startIndex, startIndex + limit),
              nextPage |-> Some(coll[startIndex + limit].id)]

Paginated(p, coll) ==
    LET limit == LimitOf(p)
        startIndex == StartIndex(p, coll)
    IN  IF startIndex > Len(coll)
        THEN [items |-> <<>>, nextPage |-> None]
        ELSE IF limit + startIndex >= Len(coll)
        THEN [items |-> Slice(coll, startIndex, Len(coll)), nextPage |-> None]
        ELSE [items |-> Slice(coll, startIndex, startIndex + limit),
              nextPage |-> Some(coll[startIndex + limit + 1].id)]

(***************************************************************************)
(* The mock database as far as role resolution reads it                    *)
(***************************************************************************)
FLEET_ID == "fleet-id"

RoleKeys == {"viewer", "collaborator", "admin"}

\* db.users: seeded; display names are non-empty and need not be unique
Users == << [id |-> "u1", display_name |-> "Hannah Arendt"],
            [id |-> "u2", display_name |-> "Hans Jonas"],
            [id |-> "u3", display_name |-> "Hans Jonas"] >>

\* db.userGroups and db.groupMemberships: seeded; u1 is in g1, u3 is in g1
\* and g2, u2 is in no group
UserGroups == << [id |-> "g1"], [id |-> "g2"] >>
GroupMemberships == << [userId |-> "u1", groupId |-> "g1"],
                       [userId |-> "u3", groupId |-> "g2"],
                       [userId |-> "u3", groupId |-> "g1"] >>

\* the resources role assignments and role checks name: the fleet, and silos,
\* one of which shares the id of the fleet
Resources == { [type |-> "fleet", id |-> FLEET_ID],
               [type |-> "silo", id |-> FLEET_ID],
               [type |-> "silo", id |-> "s1"] }
\* the identities role assignments name: users and a group
Identities == {"u1", "u2", "g1"}

RoleAssignments ==
    { [resource_type |-> r.type, resource_id |-> r.id,
       identity_id |-> i, role_name |-> n] :
         r \in Resources, i \in Identities, n \in RoleKeys }

AssignmentSeqs == UNION {[1..n -> RoleAssignments] : n \in 0..MaxAssignments}

\* A size in bytes is <<g, r>> for g * GiB + r with 0 <= r < GiB; only the
\* order of the remainders matters.
Snapshots == << [id |-> "s1", size |-> <<2, 0>>] >>
Images == << [id |-> "i1", size |-> <<1, 1>>] >>

\* db.sleds: the hardware threads of a sled and its physical RAM (in GiB)
Sleds == << [usable_hardware_threads |-> 2, usable_physical_ram |-> 1],
            [usable_hardware_threads |-> 2, usable_physical_ram |-> 1] >>

SeedDb(assignments) ==
    [users |-> Users, userGroups |-> UserGroups,
     groupMemberships |-> GroupMemberships, roleAssignments |-> assignments,
     snapshots |-> Snapshots, images |-> Images, sleds |-> Sleds]

NoOp == [name |-> "none"]

\* no metrics request is being served; no test run is under way
IdleGen == [pc |-> "idle"]
IdleSuite == [pc |-> "none"]

\* the cookies of a request, as far as read: the msw-user cookie, or none
MSW_USER_COOKIE == "msw-user"
CookieJars == { [c \in {} |-> ""] } \cup
              { [c \in {MSW_USER_COOKIE} |-> v] :
                   v \in {"", "Hans Jonas", "Simone Weil"} }

(***************************************************************************)
(* Array helpers (Array.prototype.filter is SelectSeq)                     *)
(***************************************************************************)
\* Array.prototype.includes
Includes(seq, x) == \E k \in 1..Len(seq) : seq[k] = x

\* Array.prototype.find, given the elements that satisfy the test in array
\* order: the first of them, or None (undefined)
FirstOf(matching) == IF matching = <<>> THEN None ELSE Some(Head(matching))

(***************************************************************************)
(* currentUser, roleOrStronger, userHasRole, requireRole                   *)
(***************************************************************************)
\* cookies[MSW_USER_COOKIE]: undefined when the cookie is not set
CookieName(cookies) ==
    IF MSW_USER_COOKIE \in DOMAIN cookies THEN Some(cookies[MSW_USER_COOKIE]) ELSE None

\* mutant: the last user with the display name, not the first
CurrentUserLast(d, cookies) ==
    LET name == CookieName(cookies)
        hits == {k \in 1..Len(d.users) : Some(d.users[k].display_name) = name}
    IN  IF hits = {} THEN d.users[1]
        ELSE d.users[CHOOSE k \in hits : \A j \in hits : j <= k]

\* db.users.find((u) => u.display_name === name) ?? db.users[0]
CurrentUser(d, cookies) ==
    LET name == CookieName(cookies)
        IsNamed(u) == Some(u.display_name) = name
        found == FirstOf(SelectSeq(d.users, IsNamed))
    IN  IF found = None THEN d.users[1] ELSE found[1]

\* mutant: the table read the wrong way round (roles the given role confers)
RoleOrWeaker ==
    [ viewer |-> <<"viewer">>,
      collaborator |-> <<"viewer", "collaborator">>,
      admin |-> <<"viewer", "collaborator", "admin">> ]

roleOrStronger ==
    [ viewer |-> <<"viewer", "collaborator", "admin">>,
      collaborator |-> <<"collaborator", "admin">>,
      admin |-> <<"admin">> ]

\* mutant: the groups of every membership, whoever the member is
UserGroupIdsOfAnyone(d, user) ==
    [k \in 1..Len(d.groupMemberships) |-> d.groupMemberships[k].groupId]

\* db.groupMemberships.filter(gm => gm.userId === user.id)
\*   .map(gm => db.userGroups.find(g => g.id === gm.groupId))
\*   .filter(g => !!g).map(g => g.id)
UserGroupIds(d, user) ==
    LET IsOfUser(gm) == gm.userId = user.id
        mine == SelectSeq(d.groupMemberships, IsOfUser)
        GroupOf(gm) == LET IsGroup(g) == g.id = gm.groupId
                       IN  FirstOf(SelectSeq(d.userGroups, IsGroup))
        groups == [k \in 1..Len(mine) |-> GroupOf(mine[k])]
        IsDefined(g) == g # None
        defined == SelectSeq(groups, IsDefined)
    IN  [k \in 1..Len(defined) |-> defined[k][1].id]

\* mutant: the resource id is not compared
ActorsWithRoleAnyId(d, resourceType, resourceId, role) ==
    LET Matches(ra) == /\ ra.resource_type = resourceType
                       /\ Includes(roleOrStronger[role], ra.role_name)
        matching == SelectSeq(d.roleAssignments, Matches)
    IN  [k \in 1..Len(matching) |-> matching[k].identity_id]

\* db.roleAssignments.filter(ra => ra.resource_type === resourceType &&
\*   ra.resource_id === resourceId && roleOrStronger[role].includes(ra.role_name))
\*   .map(ra => ra.identity_id)
ActorsWithRole(d, resourceType, resourceId, role) ==
    LET Matches(ra) == /\ ra.resource_type = resourceType
                       /\ ra.resource_id = resourceId
                       /\ Includes(roleOrStronger[role], ra.role_name)
        matching == SelectSeq(d.roleAssignments, Matches)
    IN  [k \in 1..Len(matching) |-> matching[k].identity_id]

\* [user.id, ...userGroupIds].some((id) => actorsWithRole.includes(id))
UserHasRole(d, user, resourceType, resourceId, role) ==
    LET userGroupIds == UserGroupIds(d, user)
        actorsWithRole == ActorsWithRole(d, resourceType, resourceId, role)
        ids == <<user.id>> \o userGroupIds
    IN  \E k \in 1..Len(ids) : Includes(actorsWithRole, ids[k])

\* mutant: the check is made for the first user, not the current one
RequireRoleOfFirstUser(d, cookies, resourceType, resourceId, role) ==
    IF ~UserHasRole(d, d.users[1], resourceType, resourceId, role)
    THEN [threw |-> Some(403), db |-> d]
    ELSE [threw |-> None, db |-> d]

\* const user = currentUser(cookies)
\* if (!userHasRole(user, resourceType, resourceId, role)) throw 403
\* (the outcome: what was thrown, if anything, and the database afterwards)
RequireRole(d, cookies, resourceType, resourceId, role) ==
    LET user == CurrentUser(d, cookies)
    IN  IF ~UserHasRole(d, user, resourceType, resourceId, role)
        THEN [threw |-> Some(403), db |-> d]
        ELSE [threw |-> None, db |-> d]

requireFleetViewer(d, cookies) == RequireRole(d, cookies, "fleet", FLEET_ID, "viewer")

requireFleetCollab(d, cookies) == RequireRole(d, cookies, "fleet", FLEET_ID, "collaborator")

(***************************************************************************)
(* Requests against a database with arbitrary role assignments             *)
(***************************************************************************)
InitRoles ==
    /\ db \in {SeedDb(a) : a \in AssignmentSeqs}
    /\ op = NoOp
    /\ items = <<>>
    /\ params = [limit |-> None, pageToken |-> None]
    /\ result = [items |-> <<>>, nextPage |-> None]
    /\ visited = <<>>
    /\ calls = 0
    /\ chain = "idle"
    /\ gen = IdleGen
    /\ suite = IdleSuite

CallCurrentUser ==
    /\ op.name = "none"
    /\ \E cookies \in CookieJars :
          op' = [name |-> "currentUser", cookies |-> cookies,
                 ret |-> CurrentUser(db, cookies)]
    /\ UNCHANGED <<db, pageVars, auxVars>>

CallUserHasRole ==
    /\ op.name = "none"
    /\ \E k \in 1..Len(db.users), r \in Resources, role \in RoleKeys :
          op' = [name |-> "userHasRole", user |-> db.users[k],
                 resourceType |-> r.type, resourceId |-> r.id, role |-> role,
                 ret |-> UserHasRole(db, db.users[k], r.type, r.id, role)]
    /\ UNCHANGED <<db, pageVars, auxVars>>

CallRequireRole ==
    /\ op.name = "none"
    /\ \E cookies \in CookieJars, r \in Resources, role \in RoleKeys :
          LET out == RequireRole(db, cookies, r.type, r.id, role)
          IN  /\ op' = [name |-> "requireRole", cookies |-> cookies,
                        resourceType |-> r.type, resourceId |-> r.id,
                        role |-> role, threw |-> out.threw]
              /\ db' = out.db
    /\ UNCHANGED <<pageVars, auxVars>>

CallRequireFleetViewer ==
    /\ op.name = "none"
    /\ \E cookies \in CookieJars :
          LET out == requireFleetViewer(db, cookies)
          IN  /\ op' = [name |-> "requireFleetViewer", cookies |-> cookies,
                        resourceType |-> "fleet", resourceId |-> FLEET_ID,
                        role |-> "viewer", threw |-> out.threw]
              /\ db' = out.db
    /\ UNCHANGED <<pageVars, auxVars>>

CallRequireFleetCollab ==
    /\ op.name = "none"
    /\ \E cookies \in CookieJars :
          LET out == requireFleetCollab(db, cookies)
          IN  /\ op' = [name |-> "requireFleetCollab", cookies |-> cookies,
                        resourceType |-> "fleet", resourceId |-> FLEET_ID,
                        role |-> "collaborator", threw |-> out.threw]
              /\ db' = out.db
    /\ UNCHANGED <<pageVars, auxVars>>

NextRoles ==
    \/ CallCurrentUser
    \/ CallUserHasRole
    \/ CallRequireRole
    \/ CallRequireFleetViewer
    \/ CallRequireFleetCollab

SpecRoles == InitRoles /\ [][NextRoles]_vars

(***************************************************************************)
(* IP addresses and ranges.  The text of an address is modelled by the     *)
(* numbers it spells: four decimal octets, or eight hexadecimal groups.    *)
(***************************************************************************)
V4Addresses == { <<10, 0, 0, 5>>, <<10, 0, 0, 10>>, <<10, 0, 1, 0>> }
\* ::a00:5 and ::a00:a have the numeric values of 10.0.0.5 and 10.0.0.10
V6Addresses == { <<0, 0, 0, 0, 0, 0, 2560, 5>>, <<0, 0, 0, 0, 0, 0, 2560, 10>> }
\* "10.0.0.256" is neither an IPv4 nor an IPv6 address
BadAddresses == { <<10, 0, 0, 256>> }
Addresses == V4Addresses \cup V6Addresses \cup BadAddresses

IpRanges == [first : Addresses, last : Addresses]
RangeSeqs == UNION {[1..n -> IpRanges] : n \in 0..MaxRanges}

\* parseIp(ip).type: 'v4', 'v6' or 'error'
ParseIpType(ip) ==
    IF Len(ip) = 4 /\ \A k \in 1..4 : ip[k] \in 0..255 THEN "v4"
    ELSE IF Len(ip) = 8 /\ \A k \in 1..8 : ip[k] \in 0..65535 THEN "v6"
    ELSE "error"

\* the unsigned value of the groups g[1..n] in the given base
RECURSIVE GroupsValue(_, _, _)
GroupsValue(g, n, base) ==
    IF n = 0 THEN 0 ELSE GroupsValue(g, n - 1, base) * base + g[n]

\* parseIp(ip).type === 'v4' ? new IPv4(ip).value : new IPv6(ip).value
\* Some(value), or None when the constructor throws (not an address)
ipToBigInt(ip) ==
    IF ParseIpType(ip) = "v4" THEN Some(GroupsValue(ip, 4, 256))
    ELSE IF ParseIpType(ip) = "v6" THEN Some(GroupsValue(ip, 8, 65536))
    ELSE None

Threw == [threw |-> TRUE, ret |-> FALSE]
Returned(b) == [threw |-> FALSE, ret |-> b]

\* mutant: no comparison of the address families
IpInRangeAnyFamily(ip, range) ==
    LET ipNum == ipToBigInt(ip)
        firstNum == ipToBigInt(range.first)
        lastNum == ipToBigInt(range.last)
    IN  IF ipNum = None THEN Threw
        ELSE IF firstNum = None THEN Threw
        ELSE IF ~(firstNum[1] <= ipNum[1]) THEN Returned(FALSE)
        ELSE IF lastNum = None THEN Threw
        ELSE Returned(ipNum[1] <= lastNum[1])

\* mutant: the last address of the range is not contained
IpInRangeHalfOpen(ip, range) ==
    LET ipIsV4 == ParseIpType(ip) = "v4"
        rangeIsV4 == ParseIpType(range.first) = "v4"
        ipNum == ipToBigInt(ip)
        firstNum == ipToBigInt(range.first)
        lastNum == ipToBigInt(range.last)
    IN  IF ipIsV4 # rangeIsV4 THEN Returned(FALSE)
        ELSE IF ipNum = None THEN Threw
        ELSE IF firstNum = None THEN Threw
        ELSE IF ~(firstNum[1] <= ipNum[1]) THEN Returned(FALSE)
        ELSE IF lastNum = None THEN Threw
        ELSE Returned(ipNum[1] < lastNum[1])

\* if (ipIsV4 !== rangeIsV4) return false
\* const ipNum = ipToBigInt(ip)
\* return ipToBigInt(first) <= ipNum && ipNum <= ipToBigInt(last)
\* (&& evaluates ipToBigInt(last) only when the first comparison is true)
ipInRange(ip, range) ==
    LET ipIsV4 == ParseIpType(ip) = "v4"
        rangeIsV4 == ParseIpType(range.first) = "v4"
        ipNum == ipToBigInt(ip)
        firstNum == ipToBigInt(range.first)
        lastNum == ipToBigInt(range.last)
    IN  IF ipIsV4 # rangeIsV4 THEN Returned(FALSE)
        ELSE IF ipNum = None THEN Threw
        ELSE IF firstNum = None THEN Threw
        ELSE IF ~(firstNum[1] <= ipNum[1]) THEN Returned(FALSE)
        ELSE IF lastNum = None THEN Threw
        ELSE Returned(ipNum[1] <= lastNum[1])

\* ranges.some((range) => ipInRange(ip, range)): in array order, stopping at
\* the first range that contains ip or throws
RECURSIVE ipInAnyRange(_, _)
ipInAnyRange(ip, ranges) ==
    IF ranges = <<>> THEN Returned(FALSE)
    ELSE LET r == ipInRange(ip, Head(ranges))
         IN  IF r.threw \/ r.ret THEN r ELSE ipInAnyRange(ip, Tail(ranges))

InitIp ==
    /\ db = SeedDb(<<>>)
    /\ op = NoOp
    /\ items = <<>>
    /\ params = [limit |-> None, pageToken |-> None]
    /\ result = [items |-> <<>>, nextPage |-> None]
    /\ visited = <<>>
    /\ calls = 0
    /\ chain = "idle"
    /\ gen = IdleGen
    /\ suite = IdleSuite

CallIpInRange ==
    /\ op.name = "none"
    /\ \E ip \in Addresses, range \in IpRanges :
          op' = [name |-> "ipInRange", ip |-> ip, range |-> range,
                 out |-> ipInRange(ip, range)]
    /\ UNCHANGED <<db, pageVars, auxVars>>

CallIpInAnyRange ==
    /\ op.name = "none"
    /\ \E ip \in Addresses, ranges \in RangeSeqs :
          op' = [name |-> "ipInAnyRange", ip |-> ip, ranges |-> ranges,
                 out |-> ipInAnyRange(ip, ranges)]
    /\ UNCHANGED <<db, pageVars, auxVars>>

NextIp == CallIpInRange \/ CallIpInAnyRange

SpecIp == InitIp /\ [][NextIp]_vars

(***************************************************************************)
(* Validation helpers: errIfExists, errIfInvalidDiskSize                   *)
(***************************************************************************)
MIN_DISK_SIZE_GiB == 1
MAX_DISK_SIZE_GiB == 1023

\* the keys and values of the items of a collection; "" is a falsy value
ItemKeys == {"id", "name"}
ItemValues == {"", "a", "b"}
Collections == UNION { [1..n -> [ItemKeys -> ItemValues]] : n \in 0..MaxCollection }

\* Partial<T>: values for some of the keys
Matches == UNION { [K -> ItemValues] : K \in SUBSET ItemKeys }

\* n * GiB
GiBTimes(n) == <<n, 0>>

\* a < b for sizes in bytes
Less(a, b) == a[1] < b[1] \/ (a[1] = b[1] /\ a[2] < b[2])

DiskSizes == { <<g, r>> : g \in {0, 1, 2, 1022, 1023, 1024}, r \in {0, 1} }

DiskSources ==
    { [type |-> "blank", id |-> ""] } \cup
    { [type |-> t, id |-> i] : t \in {"snapshot", "image"}, i \in {"s1", "i1", "zz"} }

DiskCreates == { [size |-> z, disk_source |-> src] : z \in DiskSizes, src \in DiskSources }

\* Object.entries(match).every(([key, value]) => item[key] === value)
MatchesItem(item, match) == \A key \in DOMAIN match : item[key] = match[key]

\* the name in the message of the error
NameOf(match) ==
    IF "name" \in DOMAIN match /\ match["name"] # "" THEN match["name"]
    ELSE IF "id" \in DOMAIN match /\ match["id"] # "" THEN match["id"]
    ELSE "<resource>"

AlreadyExists(name) ==
    Some([error_code |-> "ObjectAlreadyExists", name |-> name, status |-> 400])

\* errIfExists: what it throws, if anything, and the collection afterwards
errIfExists(collection, match) ==
    [threw |-> IF \E k \in 1..Len(collection) : MatchesItem(collection[k], match)
               THEN AlreadyExists(NameOf(match)) ELSE None,
     collection |-> collection]

\* db.snapshots.find((s) => source.snapshot_id === s.id)?.size ?? 0
SizeOf(rows, id) ==
    LET found == FirstOf(SelectSeq(rows, LAMBDA r : r.id = id))
    IN  IF found = None THEN <<0, 0>> ELSE found[1].size

\* mutant: a disk of exactly the maximum size is rejected
ErrIfInvalidDiskSizeStrictMax(d, disk) ==
    LET source == disk.disk_source
    IN  [threw |->
            IF Less(disk.size, GiBTimes(MIN_DISK_SIZE_GiB)) THEN Some("min")
            ELSE IF ~Less(disk.size, GiBTimes(MAX_DISK_SIZE_GiB)) THEN Some("max")
            ELSE IF source.type = "snapshot"
                 THEN IF ~Less(disk.size, SizeOf(d.snapshots, source.id))
                      THEN None ELSE Some("snapshot")
            ELSE IF source.type = "image"
                 THEN IF ~Less(disk.size, SizeOf(d.images, source.id))
                      THEN None ELSE Some("image")
            ELSE None,
         db |-> d]

\* errIfInvalidDiskSize: the message thrown ("min", "max", "snapshot" or
\* "image" for the four messages), if any, and the database afterwards
errIfInvalidDiskSize(d, disk) ==
    LET source == disk.disk_source
    IN  [threw |->
            IF Less(disk.size, GiBTimes(MIN_DISK_SIZE_GiB)) THEN Some("min")
            ELSE IF Less(GiBTimes(MAX_DISK_SIZE_GiB), disk.size) THEN Some("max")
            ELSE IF source.type = "snapshot"
                 THEN IF ~Less(disk.size, SizeOf(d.snapshots, source.id))
                      THEN None ELSE Some("snapshot")
            ELSE IF source.type = "image"
                 THEN IF ~Less(disk.size, SizeOf(d.images, source.id))
                      THEN None ELSE Some("image")
            ELSE None,
         db |-> d]

InitValidate ==
    /\ db = SeedDb(<<>>)
    /\ op = NoOp
    /\ items = <<>>
    /\ params = [limit |-> None, pageToken |-> None]
    /\ result = [items |-> <<>>, nextPage |-> None]
    /\ visited = <<>>
    /\ calls = 0
    /\ chain = "idle"
    /\ gen = IdleGen
    /\ suite = IdleSuite

CallErrIfExists ==
    /\ op.name = "none"
    /\ \E collection \in Collections, match \in Matches :
          LET out == errIfExists(collection, match)
          IN  op' = [name |-> "errIfExists", collection |-> collection,
                     match |-> match, threw |-> out.threw, after |-> out.collection]
    /\ UNCHANGED <<db, pageVars, auxVars>>

CallErrIfInvalidDiskSize ==
    /\ op.name = "none"
    /\ \E disk \in DiskCreates :
          LET out == errIfInvalidDiskSize(db, disk)
          IN  /\ op' = [name |-> "errIfInvalidDiskSize", disk |-> disk,
                        threw |-> out.threw, before |-> db]
              /\ db' = out.db
    /\ UNCHANGED <<pageVars, auxVars>>

NextValidate ==
    \/ CallErrIfExists
    \/ CallErrIfInvalidDiskSize

SpecValidate == InitValidate /\ [][NextValidate]_vars

(***************************************************************************)
(* The unit test hooks (src/test/unit/setup.ts): beforeAll, afterEach,     *)
(* afterAll around the tests of a file.  A test may change the mock        *)
(* database, add runtime handlers to the server and mount components.      *)
(***************************************************************************)
\* the database as seeded when the mock-api module is loaded
SeededDb == SeedDb(<<>>)

\* resetDb (mock-api/msw/db): the database is the seeded one again
resetDb(d) == SeededDb

\* role assignments a test may create through a handler
TestAssignments ==
    { [identity_id |-> "u2", identity_type |-> "silo_user", resource_type |-> "fleet",
       resource_id |-> FLEET_ID, role_name |-> "viewer"],
      [identity_id |-> "g1", identity_type |-> "silo_group", resource_type |-> "fleet",
       resource_id |-> FLEET_ID, role_name |-> "admin"] }

\* mutant: the hook leaves the database as the test left it
AfterEachWithoutReset(d, s) ==
    [db |-> d, suite |-> [s EXCEPT !.pc = "ready", !.mounted = 0, !.handlers = 0]]

\* afterEach(() => { resetDb(); cleanup(); server.resetHandlers() })
afterEach(d, s) ==
    [db |-> resetDb(d),
     suite |-> [s EXCEPT !.pc = "ready", !.mounted = 0, !.handlers = 0]]

InitSuite ==
    /\ db = SeededDb
    /\ suite = [pc |-> "loaded", ran |-> 0, mounted |-> 0, handlers |-> 0,
                dirtied |-> 0]
    /\ op = NoOp
    /\ items = <<>>
    /\ params = [limit |-> None, pageToken |-> None]
    /\ result = [items |-> <<>>, nextPage |-> None]
    /\ visited = <<>>
    /\ calls = 0
    /\ chain = "idle"
    /\ gen = IdleGen

\* beforeAll(() => server.listen())
BeforeAll ==
    /\ suite.pc = "loaded"
    /\ suite' = [suite EXCEPT !.pc = "ready"]
    /\ UNCHANGED <<db, op, gen, pageVars>>

\* the runner starts the next test of the file
StartTest ==
    /\ suite.pc = "ready"
    /\ suite.ran < MaxTests
    /\ suite' = [suite EXCEPT !.pc = "running", !.ran = @ + 1]
    /\ UNCHANGED <<db, op, gen, pageVars>>

\* the test creates a role assignment through a handler
TestAddsAssignment ==
    /\ suite.pc = "running"
    /\ Len(db.roleAssignments) < MaxAssignments
    /\ \E a \in TestAssignments :
          db' = [db EXCEPT !.roleAssignments = Append(@, a)]
    /\ suite' = [suite EXCEPT !.dirtied = suite.ran]
    /\ UNCHANGED <<op, gen, pageVars>>

\* the test deletes a user through a handler
TestDeletesUser ==
    /\ suite.pc = "running"
    /\ Len(db.users) > 1
    /\ db' = [db EXCEPT !.users = Tail(@)]
    /\ suite' = [suite EXCEPT !.dirtied = suite.ran]
    /\ UNCHANGED <<op, gen, pageVars>>

\* the test renders a component
TestRenders ==
    /\ suite.pc = "running"
    /\ suite.mounted = 0
    /\ suite' = [suite EXCEPT !.mounted = 1]
    /\ UNCHANGED <<db, op, gen, pageVars>>

\* the test overrides a handler with server.use
TestUsesHandler ==
    /\ suite.pc = "running"
    /\ suite.handlers = 0
    /\ suite' = [suite EXCEPT !.handlers = 1]
    /\ UNCHANGED <<db, op, gen, pageVars>>

\* the test returns or throws
EndTest ==
    /\ suite.pc = "running"
    /\ suite' = [suite EXCEPT !.pc = "finished"]
    /\ UNCHANGED <<db, op, gen, pageVars>>

AfterEach ==
    /\ suite.pc = "finished"
    /\ LET out == afterEach(db, suite)
       IN  db' = out.db /\ suite' = out.suite
    /\ UNCHANGED <<op, gen, pageVars>>

\* afterAll(() => server.close())
AfterAll ==
    /\ suite.pc = "ready"
    /\ suite.ran > 0
    /\ suite' = [suite EXCEPT !.pc = "closed"]
    /\ UNCHANGED <<db, op, gen, pageVars>>

NextSuite ==
    \/ BeforeAll
    \/ StartTest
    \/ TestAddsAssignment
    \/ TestDeletesUser
    \/ TestRenders
    \/ TestUsesHandler
    \/ EndTest
    \/ AfterEach
    \/ AfterAll

SpecSuite == InitSuite /\ [][NextSuite]_vars

(***************************************************************************)
(* OxQL result shaping: sumValues, composeOxqlData                         *)
(* (src/app/components/oxql-metrics/util.ts)                               *)
(***************************************************************************)
\* a point of a timeseries: a number, or None (null)
PointValues == {None, Some(1), Some(2), Some(3)}

\* the timestamps of a query result with n points (all series share them)
TimestampsOf(n) == [k \in 1..n |-> 60 * k]

\* a timeseries with n points: its timestamps and ts.points.values.at(0),
\* the array of its values; None when ts.points.values is empty
TimeseriesOf(n) ==
    { [timestamps |-> TimestampsOf(n), values |-> v] :
        v \in {None} \cup {Some(a) : a \in [1..n -> PointValues]} }

\* Object.values(data.tables[0].timeseries) of the results a query may return
TimeseriesLists ==
    UNION { [1..c -> TimeseriesOf(n)] : c \in 0..MaxSeries, n \in 0..MaxPoints }

\* R.sum
RECURSIVE Sum(_)
Sum(nums) == IF nums = <<>> THEN 0 ELSE Head(nums) + Sum(Tail(nums))

\* ts.points.values.at(0)?.values.values?.[i] for the 0-based index i:
\* None for null and for undefined
PointAt(ts, i) ==
    IF ts.values = None THEN None
    ELSE IF i + 1 \in DOMAIN ts.values[1] THEN ts.values[1][i + 1]
    ELSE None

IsNumber(p) == p # None

\* mutant: an index without a number sums to 0
SumAtOrZero(timeseries, i) ==
    LET at == [k \in 1..Len(timeseries) |-> PointAt(timeseries[k], i)]
        points == SelectSeq(at, IsNumber)
    IN  Some(Sum([k \in 1..Len(points) |-> points[k][1]]))

\* R.pipe(timeseries, R.map(...), R.filter((p) => typeof p === 'number'),
\*        (points) => (points.length > 0 ? R.sum(points) : null))
SumAt(timeseries, i) ==
    LET at == [k \in 1..Len(timeseries) |-> PointAt(timeseries[k], i)]
        points == SelectSeq(at, IsNumber)
    IN  IF Len(points) > 0
        THEN Some(Sum([k \in 1..Len(points) |-> points[k][1]]))
        ELSE None

\* Array.from({ length: arrLen }).map((_, i) => ...)
sumValues(timeseries, arrLen) == [k \in 1..arrLen |-> SumAt(timeseries, k - 1)]

\* mutant: the first point is kept
ComposeKeepingFirst(data) ==
    IF data = None THEN [chartData |-> <<>>, timeseriesCount |-> 0]
    ELSE LET timeseriesData == data[1]
             timeseriesCount == Len(timeseriesData)
         IN  IF timeseriesCount = 0
             THEN [chartData |-> <<>>, timeseriesCount |-> 0]
             ELSE LET timestamps == timeseriesData[1].timestamps
                      summedValues == sumValues(timeseriesData, Len(timestamps))
                  IN  [chartData |->
                          [k \in 1..Len(timestamps) |->
                              [timestamp |-> timestamps[k], value |-> summedValues[k]]],
                       timeseriesCount |-> timeseriesCount]

\* composeOxqlData: data is None (undefined) or Some(the timeseries of
\* data.tables[0]); .slice(1) drops the first point
composeOxqlData(data) ==
    IF data = None THEN [chartData |-> <<>>, timeseriesCount |-> 0]
    ELSE LET timeseriesData == data[1]
             timeseriesCount == Len(timeseriesData)
         IN  IF timeseriesCount = 0
             THEN [chartData |-> <<>>, timeseriesCount |-> 0]
             ELSE LET timestamps == timeseriesData[1].timestamps
                      summedValues == sumValues(timeseriesData, Len(timestamps))
                      all == [k \in 1..Len(timestamps) |->
                                [timestamp |-> timestamps[k], value |-> summedValues[k]]]
                  IN  [chartData |-> Slice(all, 1, Len(all)),
                       timeseriesCount |-> timeseriesCount]

(***************************************************************************)
(* Chart post-processors: getBytesChartProps, getCountChartProps,          *)
(* getUtilizationChartProps (src/app/components/oxql-metrics/util.ts)      *)
(*                                                                         *)
(* A byte count is written in base 1024, least significant digit first and *)
(* without leading zero digits (<<>> is 0, <<0, 1>> is 1024), so that      *)
(* counts beyond 2^31 can be told apart.  The tick formatter of the result *)
(* is a closure and the label is the unit in brackets: neither is kept.    *)
(***************************************************************************)
VCPU_KSTAT_INTERVAL_SEC == 5
base == 1024
byteUnits == <<"Bytes", "KiB", "MiB", "GiB", "TiB">>

\* 0, 1, 1023, 1024, 2_000_000, 1024^4 - 1, 1024^4, 1024^5, 1024^6
ByteCounts ==
    { <<>>, <<1>>, <<1023>>, <<0, 1>>, <<128, 929, 1>>,
      <<1023, 1023, 1023, 1023>>, <<0, 0, 0, 0, 1>>,
      <<0, 0, 0, 0, 0, 1>>, <<0, 0, 0, 0, 0, 0, 1>> }

\* values of a count or utilization chart
Counts == {0, 3, 100000}

NCpus == {-1, 0, 1, 2}

\* ChartDatum[] with n points whose values are drawn from V (None is null)
ChartDataOf(V) ==
    UNION { [1..n -> { [timestamp |-> t, value |-> v] :
                          t \in {60}, v \in {None} \cup {Some(x) : x \in V} }] :
            n \in 0..MaxPoints }

\* the data sets have increasing timestamps
Stamped(data) == [k \in 1..Len(data) |-> [data[k] EXCEPT !.timestamp = 60 * k]]

\* a > b for byte counts
Greater(a, b) ==
    \/ Len(a) > Len(b)
    \/ /\ Len(a) = Len(b)
       /\ \E i \in 1..Len(a) :
             /\ a[i] > b[i]
             /\ \A j \in (i + 1)..Len(a) : a[j] = b[j]

\* data.length ? Math.max(0, ...data.map((d) => d.value).filter((x) => x !== null)) : 0
getLargestValue(data) ==
    IF Len(data) = 0 THEN <<>>
    ELSE LET S == {<<>>} \cup {data[k].value[1] : k \in {j \in 1..Len(data) : data[j].value # None}}
         IN  CHOOSE m \in S : \A x \in S : ~Greater(x, m)

\* Math.floor(Math.log(largestValue) / Math.log(base)) for a count written in
\* that base: the position of its top digit; -1 stands for -Infinity (log 0)
FloorLog(largestValue) == Len(largestValue) - 1

\* Math.max(Math.floor(...), 0)
getMaxExponent(largestValue) ==
    IF FloorLog(largestValue) > 0 THEN FloorLog(largestValue) ELSE 0

\* value / base ** exponent: the whole part and the digits behind the point
Divided(value, exponent) ==
    [whole |-> IF exponent < Len(value) THEN SubSeq(value, exponent + 1, Len(value)) ELSE <<>>,
     part  |-> IF exponent < Len(value) THEN SubSeq(value, 1, exponent) ELSE value,
     exponent |-> exponent]

\* mutant: a gap is divided like a number (null / n is 0)
BytesChartPropsZeroGaps(chartData) ==
    LET maxExponent == getMaxExponent(getLargestValue(chartData))
    IN  [data |-> [k \in 1..Len(chartData) |->
                     [timestamp |-> chartData[k].timestamp,
                      value |-> IF chartData[k].value # None
                                THEN Some(Divided(chartData[k].value[1], maxExponent))
                                ELSE Some(Divided(<<>>, maxExponent))]],
         unitForSet |-> IF maxExponent + 1 \in DOMAIN byteUnits
                        THEN Some(byteUnits[maxExponent + 1]) ELSE None,
         maxExponent |-> maxExponent]

\* getBytesChartProps; unitForSet is None when byteUnits[maxExponent] is
\* undefined
getBytesChartProps(chartData) ==
    LET largestValue == getLargestValue(chartData)
        maxExponent == getMaxExponent(largestValue)
    IN  [data |-> [k \in 1..Len(chartData) |->
                     [timestamp |-> chartData[k].timestamp,
                      value |-> IF chartData[k].value # None
                                THEN Some(Divided(chartData[k].value[1], maxExponent))
                                ELSE None]],
         unitForSet |-> IF maxExponent + 1 \in DOMAIN byteUnits
                        THEN Some(byteUnits[maxExponent + 1]) ELSE None,
         maxExponent |-> maxExponent]

\* getCountChartProps: the data is returned as it is
getCountChartProps(chartData) == [data |-> chartData, unitForSet |-> Some("")]

\* mutant: only a negative divisor gives no data
UtilizationChartPropsZeroDivisor(chartData, nCPUs) ==
    LET divisor == VCPU_KSTAT_INTERVAL_SEC * nCPUs
    IN  [data |-> IF divisor >= 0
                  THEN [k \in 1..Len(chartData) |->
                          [timestamp |-> chartData[k].timestamp,
                           value |-> IF chartData[k].value # None
                                     THEN Some([num |-> chartData[k].value[1] * 100,
                                                giga |-> divisor])
                                     ELSE None]]
                  ELSE <<>>,
         unitForSet |-> Some("%")]

\* getUtilizationChartProps.  The divisor
\* VCPU_KSTAT_INTERVAL_SEC * 1000 * 1000 * 1000 * nCPUs is kept in units of
\* 10^9, and a quotient as its numerator over that divisor.
getUtilizationChartProps(chartData, nCPUs) ==
    LET divisor == VCPU_KSTAT_INTERVAL_SEC * nCPUs
    IN  [data |-> IF divisor > 0
                  THEN [k \in 1..Len(chartData) |->
                          [timestamp |-> chartData[k].timestamp,
                           value |-> IF chartData[k].value # None
                                     THEN Some([num |-> chartData[k].value[1] * 100,
                                                giga |-> divisor])
                                     ELSE None]]
                  ELSE <<>>,
         unitForSet |-> Some("%")]

\* getTime() of a Date: milliseconds since the epoch
StartTimes == {0, 999, 3600000}
\* endTime.getTime() - startTime.getTime(), in milliseconds
Durations == {-60000, 0, 1, 999, 1000, 4999, 5000, 329000, 329999, 330000,
              330500, 389999, 390000, 3600000, 3629999, 3630000, 86400000,
              604800000}
\* the datapoints argument: omitted (the default applies) or a positive count
DatapointCounts == {None, Some(1), Some(7), Some(60), Some(3600)}
DefaultDatapoints == 60

\* date-fns differenceInSeconds(end, start): the full seconds between the
\* two instants, truncated toward zero
differenceInSeconds(end, start) ==
    LET ms == end - start
    IN  IF ms >= 0 THEN ms \div 1000 ELSE -((-ms) \div 1000)

\* Math.round(n / d) for d > 0: the nearest integer, a half rounds up
MathRound(n, d) == (2 * n + d) \div (2 * d)

\* mutant: the quotient is truncated instead of rounded
GetMeanWithinSecondsFloor(start, end, datapoints) ==
    LET duration == differenceInSeconds(end, start)
        n == IF datapoints = None THEN DefaultDatapoints ELSE datapoints[1]
        quotient == duration \div n
    IN  IF VCPU_KSTAT_INTERVAL_SEC > quotient THEN VCPU_KSTAT_INTERVAL_SEC ELSE quotient

\* Math.max(VCPU_KSTAT_INTERVAL_SEC, Math.round(duration / datapoints))
getMeanWithinSeconds(start, end, datapoints) ==
    LET duration == differenceInSeconds(end, start)
        n == IF datapoints = None THEN DefaultDatapoints ELSE datapoints[1]
        rounded == MathRound(duration, n)
    IN  IF VCPU_KSTAT_INTERVAL_SEC > rounded THEN VCPU_KSTAT_INTERVAL_SEC ELSE rounded

getTimePropsForOxqlQuery(startTime, endTime, datapoints) ==
    LET meanWithinSeconds == getMeanWithinSeconds(startTime, endTime, datapoints)
        secondsToAdjust == meanWithinSeconds * 2
    IN  [meanWithinSeconds |-> meanWithinSeconds,
         adjustedStart |-> startTime - secondsToAdjust * 1000]

InitOxql ==
    /\ db = SeedDb(<<>>)
    /\ op = NoOp
    /\ items = <<>>
    /\ params = [limit |-> None, pageToken |-> None]
    /\ result = [items |-> <<>>, nextPage |-> None]
    /\ visited = <<>>
    /\ calls = 0
    /\ chain = "idle"
    /\ gen = IdleGen
    /\ suite = IdleSuite

CallSumValues ==
    /\ op.name = "none"
    /\ \E ts \in TimeseriesLists, extra \in 0..1 :
          LET n == IF ts = <<>> THEN 0 ELSE Len(ts[1].timestamps)
          IN  op' = [name |-> "sumValues", timeseries |-> ts, arrLen |-> n + extra,
                     ret |-> sumValues(ts, n + extra)]
    /\ UNCHANGED <<db, pageVars, auxVars>>

CallComposeOxqlData ==
    /\ op.name = "none"
    /\ \E data \in {None} \cup {Some(ts) : ts \in TimeseriesLists} :
          op' = [name |-> "composeOxqlData", data |-> data,
                 ret |-> composeOxqlData(data)]
    /\ UNCHANGED <<db, pageVars, auxVars>>

CallGetBytesChartProps ==
    /\ op.name = "none"
    /\ \E d \in ChartDataOf(ByteCounts) :
          op' = [name |-> "getBytesChartProps", chartData |-> Stamped(d),
                 ret |-> getBytesChartProps(Stamped(d))]
    /\ UNCHANGED <<db, pageVars, auxVars>>

CallGetCountChartProps ==
    /\ op.name = "none"
    /\ \E d \in ChartDataOf(Counts) :
          op' = [name |-> "getCountChartProps", chartData |-> Stamped(d),
                 ret |-> getCountChartProps(Stamped(d))]
    /\ UNCHANGED <<db, pageVars, auxVars>>

CallGetUtilizationChartProps ==
    /\ op.name = "none"
    /\ \E d \in ChartDataOf(Counts), n \in NCpus :
          op' = [name |-> "getUtilizationChartProps", chartData |-> Stamped(d),
                 nCPUs |-> n, ret |-> getUtilizationChartProps(Stamped(d), n)]
    /\ UNCHANGED <<db, pageVars, auxVars>>

CallGetTimePropsForOxqlQuery ==
    /\ op.name = "none"
    /\ \E start \in StartTimes, duration \in Durations, n \in DatapointCounts :
          op' = [name |-> "getTimePropsForOxqlQuery", startTime |-> start,
                 endTime |-> start + duration, datapoints |-> n,
                 ret |-> getTimePropsForOxqlQuery(start, start + duration, n)]
    /\ UNCHANGED <<db, pageVars, auxVars>>

NextOxql ==
    \/ CallSumValues
    \/ CallComposeOxqlData
    \/ CallGetBytesChartProps
    \/ CallGetCountChartProps
    \/ CallGetUtilizationChartProps
    \/ CallGetTimePropsForOxqlQuery

SpecOxql == InitOxql /\ [][NextOxql]_vars

(***************************************************************************)
(* The synthetic metrics generator: Rando, generateUtilization             *)
(*                                                                         *)
(* A number beyond 2^31 (a generator state, a time in milliseconds, their  *)
(* products) is written in base 2^15, least significant limb first.  Times *)
(* are whole seconds since the epoch.                                      *)
(***************************************************************************)
Limb == 2 ^ 15

\* the element of a set of one element.  { e(x) : x \in {v} } names a value
\* that is computed once, where e uses it more than once.
Only(S) == CHOOSE x \in S : TRUE

\* 1664525, 1013904223 and the 2 ** 32 of the modulus
RandoA == <<26125, 50>>
RandoC == <<29535, 30941>>
RandoMBits == 32

dataCount == 1000
startVal == 500
amount == 50

\* the carries of five limbs brought into 0..Limb-1
Carry(d) ==
    LET l1 == d[1]
        l2 == d[2] + l1 \div Limb
        l3 == d[3] + l2 \div Limb
        l4 == d[4] + l3 \div Limb
        l5 == d[5] + l4 \div Limb
    IN  <<l1 % Limb, l2 % Limb, l3 % Limb, l4 % Limb, l5>>

RECURSIVE BitLen(_)
BitLen(n) == IF n = 0 THEN 0 ELSE 1 + BitLen(n \div 2)

\* the number of bits of a five-limb number
BitLength(d) ==
    LET used == {k \in 1..5 : d[k] # 0}
    IN  IF used = {} THEN 0
        ELSE LET top == CHOOSE k \in used : \A j \in used : j <= k
             IN  15 * (top - 1) + BitLen(d[top])

\* a JavaScript number holds 53 significant bits: a longer result is rounded
\* to the nearest such number, ties to the even one
Round53(d) ==
    LET len == BitLength(d)
    IN  IF len <= 53 THEN d
        ELSE LET q == 2 ^ (len - 53)
                 low == d[1] % q
                 up == \/ 2 * low > q
                       \/ 2 * low = q /\ (d[1] \div q) % 2 = 1
             IN  Carry(<<d[1] - low + (IF up THEN q ELSE 0), d[2], d[3], d[4], d[5]>>)

\* Rando.next: this.seed = (this.a * this.seed + this.c) % this.m, for a seed
\* of three limbs; the number returned is the new seed / 2 ** 32
RandoNext(seed) ==
    Only({ Only({ <<sum[1], sum[2], sum[3] % (2 ^ (RandoMBits - 30))>> :
                    sum \in {Round53(Carry(<<product[1] + RandoC[1],
                                             product[2] + RandoC[2],
                                             product[3], product[4], product[5]>>))} }) :
             product \in {Round53(Carry(<<RandoA[1] * seed[1],
                                         RandoA[1] * seed[2] + RandoA[2] * seed[1],
                                         RandoA[1] * seed[3] + RandoA[2] * seed[2],
                                         RandoA[2] * seed[3],
                                         0>>))} })

\* a <= b for numbers of three limbs
Leq(a, b) ==
    \/ a[3] < b[3]
    \/ a[3] = b[3] /\ a[2] < b[2]
    \/ a[3] = b[3] /\ a[2] = b[2] /\ a[1] <= b[1]

\* seed / 2 ** 32 < 0.375,  < 0.375 / 2.5,  < 1 / 2.5,  > 0.72: the largest
\* (for >, the smallest) seed for which the comparison is true
Below0375 == <<32767, 16383, 1>>
Below015 == <<26214, 19660, 0>>
Below04 == <<26214, 19660, 1>>
Above072 == <<27526, 28835, 2>>

\* Math.floor(random * amount) for random = seed / 2 ** 32
FloorOfAmount(seed) ==
    (seed[3] * amount + (seed[2] * amount + (seed[1] * amount) \div Limb) \div Limb)
        \div (2 ^ (RandoMBits - 30))

\* Array.from(metricName).map((char) => char.charCodeAt(0))
CharCodes(metricName) ==
    CASE metricName = "cpus_provisioned" ->
            <<99, 112, 117, 115, 95, 112, 114, 111, 118, 105, 115, 105, 111, 110, 101, 100>>
      [] metricName = "virtual_disk_space_provisioned" ->
            <<118, 105, 114, 116, 117, 97, 108, 95, 100, 105, 115, 107, 95, 115, 112, 97, 99, 101, 95, 112, 114, 111, 118, 105, 115, 105, 111, 110, 101, 100>>
      [] metricName = "ram_provisioned" ->
            <<114, 97, 109, 95, 112, 114, 111, 118, 105, 115, 105, 111, 110, 101, 100>>

MetricNameSeed(metricName) == Sum(CharCodes(metricName))

\* adjStartTime.getTime() + metricNameSeed: milliseconds, in three limbs
SeedOf(adjStartTime, metricNameSeed) ==
    LET d == Carry(<<(adjStartTime % Limb) * 1000 + metricNameSeed,
                     (adjStartTime \div Limb) * 1000, 0, 0, 0>>)
    IN  <<d[1], d[2], d[3]>>

\* Math.floor(dataCount / (diff / 900)); -1 stands for Infinity (diff = 0).
\* The two floating-point divisions give one less than the exact quotient
\* for the listed differences.
ValueInterval(diff) ==
    IF diff = 0 THEN -1
    ELSE IF diff \in {1875, 3750, 7500, 15000, 30000, 60000}
         THEN (900 * dataCount) \div diff - 1
         ELSE (900 * dataCount) \div diff

\* mutant: the walk is not kept from falling below 0
WalkStepUnclamped(st, i, valueInterval) ==
    IF st.x = valueInterval
    THEN Only({ LET biased == i < 250 \/ (i > 500 /\ i < 750)
                    negated == IF biased THEN Leq(seed, Below04) ELSE Leq(seed, Below015)
                    offset == IF biased \/ Leq(seed, Below0375)
                              THEN IF negated THEN 0 - FloorOfAmount(seed)
                                   ELSE FloorOfAmount(seed)
                              ELSE 0
                IN  [value |-> IF Leq(Above072, seed) THEN st.value + offset
                               ELSE st.value - offset,
                     x |-> 0, seed |-> seed] :
                  seed \in {RandoNext(st.seed)} })
    ELSE [st EXCEPT !.x = @ + 1]

\* one turn of the loop for index i: st.value is values[i - 1] before and
\* values[i] after, st.seed the state of the generator
WalkStep(st, i, valueInterval) ==
    IF st.x = valueInterval
    THEN Only({ LET biased == i < 250 \/ (i > 500 /\ i < 750)
                    negated == IF biased THEN Leq(seed, Below04) ELSE Leq(seed, Below015)
                    offset == IF biased \/ Leq(seed, Below0375)
                              THEN IF negated THEN 0 - FloorOfAmount(seed)
                                   ELSE FloorOfAmount(seed)
                              ELSE 0
                IN  [value |-> IF Leq(Above072, seed) THEN st.value + offset
                               ELSE IF st.value - offset > 0 THEN st.value - offset ELSE 0,
                     x |-> 0, seed |-> seed] :
                  seed \in {RandoNext(st.seed)} })
    ELSE [st EXCEPT !.x = @ + 1]

\* the turns lo..hi of the loop: the values written and the state reached
RECURSIVE WalkRange(_, _, _, _)
WalkRange(st, lo, hi, valueInterval) ==
    IF lo = hi
    THEN Only({ [values |-> <<next.value>>, st |-> next] :
                  next \in {WalkStep(st, lo, valueInterval)} })
    ELSE Only({ Only({ [values |-> left.values \o right.values, st |-> right.st] :
                         right \in {WalkRange(left.st, (lo + hi) \div 2 + 1, hi,
                                              valueInterval)} }) :
                  left \in {WalkRange(st, lo, (lo + hi) \div 2, valueInterval)} })

\* const rando = new Rando(seed); values[0] = startVal; the loop
Walk(seed, valueInterval) ==
    <<startVal>> \o
        WalkRange([value |-> startVal, x |-> 0, seed |-> seed], 1, dataCount - 1,
                  valueInterval).values

\* the start of the windows asked for (2026-01-14T11:32:00Z) and their
\* ends: before the start, at the start, and 60000 s, 300000 s and 30 days
\* after it
WindowStart == 1768390320
WindowEnds == {WindowStart - 900, WindowStart, WindowStart + 60000,
               WindowStart + 300000, WindowStart + 2592000}

\* Date.now() at a call: 30, 31 and 100 days after WindowStart
Nows == {WindowStart + 2592000, WindowStart + 2678400, WindowStart + 8640000}

\* Math.random() at a call, in quarters
Randoms == {0, 3}

MetricNames == {"cpus_provisioned", "virtual_disk_space_provisioned", "ram_provisioned"}
SledLists == {<<>>, Sleds}

\* 1000 * 60 * 60 * 24 * 90 milliseconds, in seconds
NinetyDays == 60 * 60 * 24 * 90

\* totalCapacity (@oxide/api): the hardware threads, the RAM in GiB and the
\* disk space in TiB of the sleds
totalCapacity(sleds) ==
    [cpu |-> Sum([k \in 1..Len(sleds) |-> sleds[k].usable_hardware_threads]),
     ram_gib |-> Sum([k \in 1..Len(sleds) |-> sleds[k].usable_physical_ram]),
     disk_tib |-> Len(sleds)]

\* cap, in the unit of the metric: threads, TiB or GiB
CapOf(metricName, capacity) ==
    IF metricName = "cpus_provisioned" THEN capacity.cpu
    ELSE IF metricName = "virtual_disk_space_provisioned" THEN capacity.disk_tib
    ELSE capacity.ram_gib

\* Math.max(...values)
MaxOf(values) ==
    Only({ CHOOSE m \in S : \A v \in S : v <= m :
             S \in { {values[k] : k \in 1..Len(values)} } })

\* Math.random() * (1 - 0.33) + 0.33 for Math.random() = random / 4
RandomFactor(random) == [num |-> random * 67 + 132, den |-> 400]

\* (value / currentMax) * cap * randomFactor, floored for cpus_provisioned,
\* is Normalized(...) / Denominator(...): the values returned by a call
\* share their denominator
Denominator(currentMax, randomFactor, metricName) ==
    IF metricName = "cpus_provisioned" THEN 1 ELSE currentMax * randomFactor.den

Normalized(value, currentMax, cap, randomFactor, metricName) ==
    IF metricName = "cpus_provisioned"
    THEN (value * cap * randomFactor.num) \div (currentMax * randomFactor.den)
    ELSE value * cap * randomFactor.num

\* Math.max(startTime.getTime(), Date.now() - 1000 * 60 * 60 * 24 * 90)
AdjStartTime(startTime, now) ==
    IF startTime >= now - NinetyDays THEN startTime ELSE now - NinetyDays

\* Math.abs(differenceInSeconds(adjStartTime, endTime))
DiffOf(adjStartTime, endTime) ==
    IF adjStartTime >= endTime THEN adjStartTime - endTime ELSE endTime - adjStartTime

\* mutant: the generator is seeded from the time of the call
GenerateUtilizationSeededByNow(metricName, startTime, endTime, sleds, now, random) ==
    LET adjStartTime == AdjStartTime(startTime, now)
        cap == CapOf(metricName, totalCapacity(sleds))
        seed == SeedOf(now, MetricNameSeed(metricName))
        randomFactor == RandomFactor(random)
    IN  Only({ Only({ [adjStartTime |-> adjStartTime, cap |-> cap, values |-> values,
                       currentMax |-> currentMax, randomFactor |-> randomFactor,
                       den |-> Denominator(currentMax, randomFactor, metricName),
                       normalizedValues |->
                          [k \in 1..Len(values) |->
                              Normalized(values[k], currentMax, cap, randomFactor,
                                         metricName)]] :
                     currentMax \in {MaxOf(values)} }) :
               values \in {Walk(seed, ValueInterval(DiffOf(adjStartTime, endTime)))} })

\* generateUtilization, called at the time now and drawing random from
\* Math.random(): the values returned (normalizedValues over den) and what
\* they were computed from
generateUtilization(metricName, startTime, endTime, sleds, now, random) ==
    LET adjStartTime == AdjStartTime(startTime, now)
        cap == CapOf(metricName, totalCapacity(sleds))
        seed == SeedOf(adjStartTime, MetricNameSeed(metricName))
        randomFactor == RandomFactor(random)
    IN  Only({ Only({ [adjStartTime |-> adjStartTime, cap |-> cap, values |-> values,
                       currentMax |-> currentMax, randomFactor |-> randomFactor,
                       den |-> Denominator(currentMax, randomFactor, metricName),
                       normalizedValues |->
                          [k \in 1..Len(values) |->
                              Normalized(values[k], currentMax, cap, randomFactor,
                                         metricName)]] :
                     currentMax \in {MaxOf(values)} }) :
               values \in {Walk(seed, ValueInterval(DiffOf(adjStartTime, endTime)))} })

\* getStartAndEndTime: endTime = now, startTime = subHours(endTime, 24) when
\* they are not given
getStartAndEndTime(query, now) ==
    LET endTime == IF query.endTime = None THEN now ELSE query.endTime[1]
    IN  [startTime |-> IF query.startTime = None THEN endTime - 24 * 60 * 60
                       ELSE query.startTime[1],
         endTime |-> endTime]

\* genI64Data (mock-api/metrics): one item per data point, in time order
genI64Data(dataPoints, startTime, endTime) ==
    Only({ [k \in 1..Len(points) |-> [index |-> k, datum |-> points[k]]] :
             points \in {dataPoints} })

Reverse(seq) == Only({ [k \in 1..Len(s) |-> s[Len(s) + 1 - k]] : s \in {seq} })

\* the queries of a metric: times, order and limit may each be absent
MetricQueries ==
    { [startTime |-> st, endTime |-> et, order |-> o, limit |-> l] :
        st \in {None, Some(WindowStart)},
        et \in {None, Some(WindowStart - 900), Some(WindowStart), Some(WindowStart + 300000)},
        o \in {None, Some("ascending"), Some("descending")},
        l \in {None, Some(0), Some(3), Some(dataCount + 500)} }

\* mutant: the limit is applied before the order
HandleMetricsLimitFirst(d, metricName, query, now, random) ==
    LET times == getStartAndEndTime(query, now)
    IN  IF times.endTime <= times.startTime
        THEN [items |-> <<>>, generated |-> None]
        ELSE Only({ [items |-> IF query.order = Some("descending")
                               THEN Reverse(IF query.limit # None
                                            THEN Slice(points, 0, query.limit[1])
                                            ELSE points)
                               ELSE IF query.limit # None
                                    THEN Slice(points, 0, query.limit[1]) ELSE points,
                     generated |-> Some(points)] :
                    points \in {genI64Data(
                        generateUtilization(metricName, times.startTime, times.endTime,
                                            d.sleds, now, random).normalizedValues,
                        times.startTime, times.endTime)} })

\* handleMetrics: the response, and the items generated for it (None when
\* nothing was generated)
handleMetrics(d, metricName, query, now, random) ==
    LET times == getStartAndEndTime(query, now)
    IN  IF times.endTime <= times.startTime
        THEN [items |-> <<>>, generated |-> None]
        ELSE Only({ Only({ [items |-> IF query.limit # None
                                      THEN Slice(ordered, 0, query.limit[1])
                                      ELSE ordered,
                            generated |-> Some(points)] :
                           ordered \in {IF query.order = Some("descending")
                                        THEN Reverse(points) ELSE points} }) :
                    points \in {genI64Data(
                        generateUtilization(metricName, times.startTime, times.endTime,
                                            d.sleds, now, random).normalizedValues,
                        times.startTime, times.endTime)} })

InitMetrics ==
    /\ db = SeedDb(<<>>)
    /\ gen = IdleGen
    /\ op = NoOp
    /\ items = <<>>
    /\ params = [limit |-> None, pageToken |-> None]
    /\ result = [items |-> <<>>, nextPage |-> None]
    /\ visited = <<>>
    /\ calls = 0
    /\ chain = "idle"
    /\ suite = IdleSuite

\* a call of generateUtilization
CallGenerateUtilization ==
    /\ gen.pc = "idle"
    /\ \E metricName \in MetricNames, endTime \in WindowEnds, sleds \in SledLists,
          now \in Nows \ {WindowStart + 2678400}, random \in {0} :
          gen' = [pc |-> "generated",
                  metricName |-> metricName, startTime |-> WindowStart,
                  endTime |-> endTime, sleds |-> sleds, now |-> now, random |-> random,
                  out |-> generateUtilization(metricName, WindowStart, endTime, sleds,
                                              now, random)]
    /\ UNCHANGED <<db, op, suite, pageVars>>

\* the same call again, at another time and with another draw of Math.random
RepeatGenerateUtilization ==
    /\ gen.pc = "generated"
    /\ \E now \in Nows, random \in Randoms :
          gen' = [pc |-> "repeated",
                  metricName |-> gen.metricName, startTime |-> gen.startTime,
                  endTime |-> gen.endTime, sleds |-> gen.sleds,
                  now |-> now, random |-> random,
                  out |-> generateUtilization(gen.metricName, gen.startTime, gen.endTime,
                                              gen.sleds, now, random),
                  prev |-> [now |-> gen.now, random |-> gen.random, out |-> gen.out]]
    /\ UNCHANGED <<db, op, suite, pageVars>>

\* a request for a system metric
CallHandleMetrics ==
    /\ gen.pc = "idle"
    /\ \E metricName \in {"cpus_provisioned"}, query \in MetricQueries,
          now \in {WindowStart + 2592000}, random \in {3} :
          gen' = [pc |-> "handled", metricName |-> metricName, query |-> query,
                  now |-> now, random |-> random,
                  response |-> handleMetrics(db, metricName, query, now, random)]
    /\ UNCHANGED <<db, op, suite, pageVars>>

NextMetrics ==
    \/ CallGenerateUtilization
    \/ RepeatGenerateUtilization
    \/ CallHandleMetrics

SpecMetrics == InitMetrics /\ [][NextMetrics]_vars

(***************************************************************************)
(* Callers of paginated: a chain of calls linked by the returned tokens,   *)
(* and a single call with an arbitrary token.                              *)
(***************************************************************************)
InitPaginate ==
    /\ items \in {ItemsOf(ids) : ids \in IdSeqs}
                 \cup {repeat(DEFAULT_LIMIT), repeat(DEFAULT_LIMIT + 1)}
    /\ params = [limit |-> None, pageToken |-> None]
    /\ result = [items |-> <<>>, nextPage |-> None]
    /\ visited = <<>>
    /\ calls = 0
    /\ chain = "idle"
    /\ gen = IdleGen
    /\ suite = IdleSuite
    /\ db = SeedDb(<<>>)
    /\ op = NoOp

\* the first call of a chain: no page token
PaginatedFirst ==
    /\ chain = "idle"
    /\ \E l \in Limits :
          LET p == [limit |-> l, pageToken |-> None]
              r == Paginated(p, items)
          IN  /\ params' = p
              /\ result' = r
              /\ visited' = r.items
              /\ calls' = 1
              /\ chain' = IF r.nextPage = None THEN "done" ELSE "chaining"
    /\ UNCHANGED <<items, db, op, auxVars>>

\* the next call of a chain: the token is the nextPage of the previous result
PaginatedNext ==
    /\ chain = "chaining"
    /\ calls < MaxCalls
    /\ LET p == [limit |-> params.limit, pageToken |-> result.nextPage]
           r == Paginated(p, items)
       IN  /\ params' = p
           /\ result' = r
           /\ visited' = visited \o r.items
           /\ calls' = calls + 1
           /\ chain' = IF r.nextPage = None THEN "done" ELSE "chaining"
    /\ UNCHANGED <<items, db, op, auxVars>>

\* a single call with a token the caller chose
PaginatedWithToken ==
    /\ chain = "idle"
    /\ \E l \in Limits, t \in Tokens :
          LET p == [limit |-> l, pageToken |-> Some(t)]
              r == Paginated(p, items)
          IN  /\ params' = p
              /\ result' = r
              /\ visited' = r.items
              /\ calls' = 1
              /\ chain' = "probe"
    /\ UNCHANGED <<items, db, op, auxVars>>

NextPaginate == PaginatedFirst \/ PaginatedNext \/ PaginatedWithToken

SpecPaginate == InitPaginate /\ [][NextPaginate]_vars

(***************************************************************************)
(* Properties of paginated                                                 *)
(***************************************************************************)
DistinctIds(coll) == \A j, k \in 1..Len(coll) : coll[j].id = coll[k].id => j = k
NonEmptyIds(coll) == \A k \in 1..Len(coll) : coll[k].id # ""
IsPrefix(s, t) == Len(s) <= Len(t) /\ s = SubSeq(t, 1, Len(s))
InChain == chain \in {"chaining", "done"}

\* what a chain of calls must have done so far: no item twice or out of
\* order, every call after the first was needed, and the chain ends (null
\* nextPage) exactly when every item has been returned
ChainVisitsEachOnce ==
    /\ IsPrefix(visited, items)
    /\ (calls - 1) * LimitOf(params) < Len(items) \/ calls = 1
    /\ chain = "done" => visited = items
    /\ chain = "chaining" => /\ Len(visited) = calls * LimitOf(params)
                             /\ Len(visited) < Len(items)

\* C1 as stated: for pairwise distinct ids and a limit L >= 1, the chain of
\* calls linked by nextPage visits every item exactly once, in collection
\* order, and ends after finitely many calls with nextPage = null.
C1_AnyDistinctIds ==
    (InChain /\ DistinctIds(items) /\ params.limit # None /\ params.limit[1] >= 1)
    => ChainVisitsEachOnce

\* C1 amended: the same, for pairwise distinct ids none of which is the empty
\* string (an empty token is read as "no token" and restarts the chain).
C1_ChainVisitsEachOnce ==
    (InChain /\ DistinctIds(items) /\ NonEmptyIds(items)) => ChainVisitsEachOnce

C1_Witness ==
    /\ chain = "done" /\ calls = 3 /\ Len(items) = 3
    /\ DistinctIds(items) /\ NonEmptyIds(items)
    /\ params.limit = Some(1)
    /\ visited = items

\* 1-based position of the first item whose id is t, 0 when there is none
FirstWithId(coll, t) ==
    IF \E k \in 1..Len(coll) : coll[k].id = t
    THEN CHOOSE k \in 1..Len(coll) :
            coll[k].id = t /\ \A j \in 1..(k - 1) : coll[j].id # t
    ELSE 0

\* the at most n items of coll from 1-based position k on
PageFrom(coll, k, n) ==
    [j \in 1..(IF Len(coll) - k + 1 < n THEN Len(coll) - k + 1 ELSE n) |-> coll[k + j - 1]]

\* C2 as stated: a non-null nextPage equals the id of the last item of the
\* page just returned, and a call given a token returns the slice that starts
\* immediately after the item the token names.
C2_TokenIsLastItemId ==
    /\ (calls >= 1 /\ result.nextPage # None) =>
          /\ Len(result.items) >= 1
          /\ result.nextPage = Some(result.items[Len(result.items)].id)
    /\ (calls >= 1 /\ TokenGiven(params) /\ FirstWithId(items, params.pageToken[1]) > 0) =>
          result.items = PageFrom(items, FirstWithId(items, params.pageToken[1]) + 1,
                                  LimitOf(params))

\* C2 amended: a non-null nextPage equals the id of the item that immediately
\* follows the last item of the page just returned (the next page's first
\* item), and a call given a token returns the slice that starts at (not after)
\* the first item whose id equals the token, or at the start of the collection
\* when the token is the empty string or matches no item.
C2_TokenIsNextItemId ==
    /\ (calls >= 1 /\ result.nextPage # None) =>
          /\ Len(result.items) >= 1
          /\ result.items[Len(result.items)].name < Len(items)
          /\ result.nextPage =
                Some(items[result.items[Len(result.items)].name + 1].id)
    /\ (calls >= 1 /\ params.pageToken # None) =>
          LET t == params.pageToken[1]
              k == IF t # "" /\ FirstWithId(items, t) > 0 THEN FirstWithId(items, t) ELSE 1
          IN  result.items = PageFrom(items, k, LimitOf(params))

C2_Witness ==
    /\ chain = "chaining" /\ calls = 2
    /\ params.pageToken = Some("b")
    /\ result.nextPage = Some("c")
    /\ Len(result.items) = 1 /\ result.items[1].id = "b"

\* C3: a call with a page token that equals the id of no item returns the
\* same page and nextPage as a call with no page token.
C3_UnmatchedTokenIsFirstPage ==
    (chain = "probe" /\ \A k \in 1..Len(items) : items[k].id # params.pageToken[1])
    => result = Paginated([limit |-> params.limit, pageToken |-> None], items)

C3_Witness ==
    /\ chain = "probe"
    /\ params.pageToken = Some("zz")
    /\ Len(items) = 3
    /\ result.nextPage # None
    /\ result.items = SubSeq(items, 1, Len(result.items))

(***************************************************************************)
(* Properties of role resolution                                           *)
(***************************************************************************)
\* the order viewer < collaborator < admin
Rank == [viewer |-> 1, collaborator |-> 2, admin |-> 3]

OnResource(ra, type, id) == ra.resource_type = type /\ ra.resource_id = id

\* C4: with a single role assignment of role r to the user on the resource,
\* userHasRole for required role q on that resource is true exactly when r is
\* at least as strong as q in the order viewer < collaborator < admin.
C4_SingleAssignmentOrder ==
    (/\ op.name = "userHasRole"
     /\ Len(db.roleAssignments) = 1
     /\ db.roleAssignments[1].identity_id = op.user.id
     /\ OnResource(db.roleAssignments[1], op.resourceType, op.resourceId))
    => (op.ret <=> Rank[db.roleAssignments[1].role_name] >= Rank[op.role])

C4_Witness ==
    /\ op.name = "userHasRole"
    /\ op.user.id = "u2"
    /\ db.roleAssignments =
          << [resource_type |-> "silo", resource_id |-> "s1",
              identity_id |-> "u2", role_name |-> "collaborator"] >>
    /\ op.resourceType = "silo" /\ op.resourceId = "s1"
    /\ op.role = "admin"
    /\ op.ret = FALSE

\* C5: if no role assignment is on the exact resource (type and id), the
\* result of userHasRole is false, whatever roles the user or their groups
\* hold on other resources.
C5_NoRoleFromOtherResource ==
    (/\ op.name = "userHasRole"
     /\ \A k \in 1..Len(db.roleAssignments) :
           ~OnResource(db.roleAssignments[k], op.resourceType, op.resourceId))
    => op.ret = FALSE

C5_Witness ==
    /\ op.name = "userHasRole"
    /\ op.user.id = "u1"
    /\ op.resourceType = "silo" /\ op.resourceId = "s1"
    /\ op.role = "viewer"
    /\ db.roleAssignments =
          << [resource_type |-> "silo", resource_id |-> FLEET_ID,
              identity_id |-> "u1", role_name |-> "admin"],
             [resource_type |-> "fleet", resource_id |-> FLEET_ID,
              identity_id |-> "g1", role_name |-> "admin"] >>
    /\ op.ret = FALSE

IsMember(d, userId, groupId) ==
    \E m \in 1..Len(d.groupMemberships) :
        /\ d.groupMemberships[m].userId = userId
        /\ d.groupMemberships[m].groupId = groupId

\* C6: userHasRole is true if and only if some identity holding a sufficient
\* role on the exact resource is the user or a group the user belongs to.
C6_OwnIdOrGroup ==
    op.name = "userHasRole" =>
       (op.ret <=>
          \E k \in 1..Len(db.roleAssignments) :
             LET ra == db.roleAssignments[k]
             IN  /\ OnResource(ra, op.resourceType, op.resourceId)
                 /\ Rank[ra.role_name] >= Rank[op.role]
                 /\ \/ ra.identity_id = op.user.id
                    \/ IsMember(db, op.user.id, ra.identity_id))

C6_Witness ==
    /\ op.name = "userHasRole"
    /\ op.user.id = "u2"
    /\ op.resourceType = "fleet" /\ op.resourceId = FLEET_ID
    /\ op.role = "viewer"
    /\ db.roleAssignments =
          << [resource_type |-> "fleet", resource_id |-> FLEET_ID,
              identity_id |-> "g1", role_name |-> "admin"],
             [resource_type |-> "fleet", resource_id |-> FLEET_ID,
              identity_id |-> "u1", role_name |-> "viewer"] >>
    /\ op.ret = FALSE

\* C7: requireRole, requireFleetViewer and requireFleetCollab throw 403
\* exactly when userHasRole is false for the current user on the resource and
\* role (the fleet, as viewer or collaborator, for the two fleet checks),
\* return normally otherwise, and leave the database unchanged either way.
C7_ForbiddenIffNoRole ==
    [][ /\ op'.name = "requireRole" =>
             /\ db' = db
             /\ op'.threw \in {None, Some(403)}
             /\ op'.threw = Some(403) <=>
                   ~UserHasRole(db, CurrentUser(db, op'.cookies),
                                op'.resourceType, op'.resourceId, op'.role)
        /\ op'.name = "requireFleetViewer" =>
             /\ db' = db
             /\ op'.threw \in {None, Some(403)}
             /\ op'.threw = Some(403) <=>
                   ~UserHasRole(db, CurrentUser(db, op'.cookies),
                                "fleet", FLEET_ID, "viewer")
        /\ op'.name = "requireFleetCollab" =>
             /\ db' = db
             /\ op'.threw \in {None, Some(403)}
             /\ op'.threw = Some(403) <=>
                   ~UserHasRole(db, CurrentUser(db, op'.cookies),
                                "fleet", FLEET_ID, "collaborator")
      ]_vars

C7_Witness ==
    /\ op.name = "requireFleetCollab"
    /\ op.cookies = [c \in {MSW_USER_COOKIE} |-> "Hans Jonas"]
    /\ db.roleAssignments =
          << [resource_type |-> "fleet", resource_id |-> FLEET_ID,
              identity_id |-> "u2", role_name |-> "viewer"],
             [resource_type |-> "fleet", resource_id |-> FLEET_ID,
              identity_id |-> "u1", role_name |-> "admin"] >>
    /\ op.threw = Some(403)

\* C8: currentUser returns the first user whose display_name equals the
\* msw-user cookie; with the cookie absent, empty or matching no display name
\* it returns the first user, db.users[0].
C8_CurrentUserByCookie ==
    op.name = "currentUser" =>
       LET named == IF MSW_USER_COOKIE \in DOMAIN op.cookies
                    THEN {k \in 1..Len(db.users) :
                            db.users[k].display_name = op.cookies[MSW_USER_COOKIE]}
                    ELSE {}
       IN  /\ named # {} =>
                \E k \in named : /\ op.ret = db.users[k]
                                 /\ \A j \in named : k <= j
           /\ named = {} => op.ret = db.users[1]
           /\ (MSW_USER_COOKIE \notin DOMAIN op.cookies
                 \/ op.cookies[MSW_USER_COOKIE] = "") => op.ret = db.users[1]

C8_Witness ==
    /\ op.name = "currentUser"
    /\ op.cookies = [c \in {MSW_USER_COOKIE} |-> "Hans Jonas"]
    /\ op.ret.id = "u2"

(***************************************************************************)
(* Properties of IP range containment                                      *)
(***************************************************************************)
Family(ip) == ParseIpType(ip)
IsAddress(ip) == Family(ip) \in {"v4", "v6"}

\* C9: for an address and ranges of the same family, ipInAnyRange is true if
\* and only if some range has first <= ip <= last numerically, both endpoints
\* included; it is false for an empty list of ranges.
C9_InAnyRangeInclusive ==
    (/\ op.name = "ipInAnyRange"
     /\ IsAddress(op.ip)
     /\ \A k \in 1..Len(op.ranges) :
           /\ Family(op.ranges[k].first) = Family(op.ip)
           /\ Family(op.ranges[k].last) = Family(op.ip))
    => /\ ~op.out.threw
       /\ op.out.ret <=>
             \E k \in 1..Len(op.ranges) :
                /\ ipToBigInt(op.ranges[k].first)[1] <= ipToBigInt(op.ip)[1]
                /\ ipToBigInt(op.ip)[1] <= ipToBigInt(op.ranges[k].last)[1]
       /\ op.ranges = <<>> => ~op.out.ret

\* ip equals the last address of the only range that contains it
C9_Witness ==
    /\ op.name = "ipInAnyRange"
    /\ op.ip = <<10, 0, 0, 10>>
    /\ op.ranges = << [first |-> <<10, 0, 1, 0>>, last |-> <<10, 0, 1, 0>>],
                      [first |-> <<10, 0, 0, 5>>, last |-> <<10, 0, 0, 10>>] >>
    /\ op.out = Returned(TRUE)

\* C10: when the probe address and the range are of different address
\* families (IPv4 against IPv6 or IPv6 against IPv4), ipInRange returns false
\* whatever the numeric values, and does not throw.
C10_FamilyMismatchIsFalse ==
    (/\ op.name = "ipInRange"
     /\ IsAddress(op.ip)
     /\ IsAddress(op.range.first)
     /\ Family(op.ip) # Family(op.range.first))
    => op.out = Returned(FALSE)

\* 10.0.0.5 lies numerically between ::a00:5 and ::a00:a
C10_Witness ==
    /\ op.name = "ipInRange"
    /\ op.ip = <<10, 0, 0, 5>>
    /\ op.range = [first |-> <<0, 0, 0, 0, 0, 0, 2560, 5>>,
                   last |-> <<0, 0, 0, 0, 0, 0, 2560, 10>>]
    /\ ipToBigInt(op.range.first)[1] <= ipToBigInt(op.ip)[1]
    /\ ipToBigInt(op.ip)[1] <= ipToBigInt(op.range.last)[1]
    /\ op.out = Returned(FALSE)

(***************************************************************************)
(* Properties of the OxQL result shaping                                   *)
(***************************************************************************)
\* the timeseries (by position) that have a number at the 0-based index i
WithNumberAt(timeseries, i) ==
    {k \in 1..Len(timeseries) :
        /\ timeseries[k].values # None
        /\ i + 1 \in DOMAIN timeseries[k].values[1]
        /\ timeseries[k].values[1][i + 1] # None}

\* the sum of the numbers the timeseries in S have at the 0-based index i
RECURSIVE TotalAt(_, _, _)
TotalAt(timeseries, S, i) ==
    IF S = {} THEN 0
    ELSE LET k == CHOOSE j \in S : TRUE
         IN  timeseries[k].values[1][i + 1][1] + TotalAt(timeseries, S \ {k}, i)

\* null when no timeseries has a number at i, else the sum of the numbers
SummedAt(timeseries, i) ==
    LET S == WithNumberAt(timeseries, i)
    IN  IF S = {} THEN None ELSE Some(TotalAt(timeseries, S, i))

\* C13: at every index i below the requested length, sumValues yields the sum
\* of exactly the timeseries values at i that are numbers, and null (not 0)
\* when no timeseries has a number at i.
C13_SumOfNumbersOrNull ==
    op.name = "sumValues" =>
       /\ Len(op.ret) = op.arrLen
       /\ \A i \in 0..(op.arrLen - 1) :
             op.ret[i + 1] = SummedAt(op.timeseries, i)

\* [1, null] and [2, 3] sum to [3, 3]
C13_Witness ==
    /\ op.name = "sumValues"
    /\ Len(op.timeseries) = 2
    /\ op.timeseries[1].values = Some(<<Some(1), None>>)
    /\ op.timeseries[2].values = Some(<<Some(2), Some(3)>>)
    /\ op.arrLen = 2
    /\ op.ret = <<Some(3), Some(3)>>

\* C14: composeOxqlData drops the first point: for a first timeseries with T
\* timestamps chartData has max(T - 1, 0) entries, entry k carrying timestamp
\* k+1 and the summed value at index k+1; undefined data and a table without
\* timeseries give an empty chartData and timeseriesCount 0.
C14_FirstPointDropped ==
    op.name = "composeOxqlData" =>
       IF op.data = None \/ op.data = Some(<<>>)
       THEN op.ret = [chartData |-> <<>>, timeseriesCount |-> 0]
       ELSE LET series == op.data[1]
                T == Len(series[1].timestamps)
            IN  /\ op.ret.timeseriesCount = Len(series)
                /\ Len(op.ret.chartData) = (IF T >= 1 THEN T - 1 ELSE 0)
                /\ \A k \in 1..Len(op.ret.chartData) :
                      /\ op.ret.chartData[k].timestamp = series[1].timestamps[k + 1]
                      /\ op.ret.chartData[k].value = SummedAt(series, k)

C14_Witness ==
    /\ op.name = "composeOxqlData"
    /\ op.data # None
    /\ Len(op.data[1]) = 2
    /\ op.data[1][1].values = Some(<<Some(3), Some(1)>>)
    /\ op.data[1][2].values = Some(<<Some(3), None>>)
    /\ op.ret.chartData = << [timestamp |-> 120, value |-> Some(1)] >>
    /\ op.ret.timeseriesCount = 2

(***************************************************************************)
(* Properties of the chart post-processors                                 *)
(***************************************************************************)
\* the numbers (not the gaps) of a data set
NumbersOf(data) == {data[k].value[1] : k \in {j \in 1..Len(data) : data[j].value # None}}

\* C15 (as stated): after getBytesChartProps every scaled value is below 1024,
\* some scaled value is at least 1 when some raw value is at least 1, and
\* unitForSet is the one of Bytes, KiB, MiB, GiB, TiB that matches the divisor.
C15_ReadableRangeAndUnit ==
    op.name = "getBytesChartProps" =>
       /\ \A v \in NumbersOf(op.ret.data) : Len(v.whole) <= 1
       /\ (\E r \in NumbersOf(op.chartData) : r # <<>>)
             => \E v \in NumbersOf(op.ret.data) : v.whole # <<>>
       /\ \E u \in DOMAIN byteUnits :
             /\ op.ret.unitForSet = Some(byteUnits[u])
             /\ \A v \in NumbersOf(op.ret.data) : v.exponent = u - 1

\* C16: with core count 0 the data is empty whatever the input; with core
\* count n > 0 every non-null value v becomes v * 100 / (5 * 10^9 * n).
C16_UtilizationScaling ==
    op.name = "getUtilizationChartProps" =>
       /\ op.nCPUs = 0 => op.ret.data = <<>>
       /\ op.nCPUs > 0 =>
             /\ Len(op.ret.data) = Len(op.chartData)
             /\ \A k \in 1..Len(op.chartData) :
                   op.chartData[k].value # None =>
                      LET q == op.ret.data[k].value[1]
                      IN  /\ q.giga > 0
                          /\ q.num * (5 * op.nCPUs) = (op.chartData[k].value[1] * 100) * q.giga

C16_Witness ==
    /\ op.name = "getUtilizationChartProps"
    /\ op.nCPUs = 0
    /\ Len(op.chartData) = 2
    /\ op.chartData[1].value = Some(100000)
    /\ op.ret.data = <<>>

\* C17: getBytesChartProps, getCountChartProps and getUtilizationChartProps
\* with core count > 0 return data of the same length, with the same
\* timestamps in the same order, whose value at a position is null exactly
\* when the input value at that position is null.
C17_GapsPreserved ==
    (\/ op.name \in {"getBytesChartProps", "getCountChartProps"}
     \/ op.name = "getUtilizationChartProps" /\ op.nCPUs > 0) =>
       /\ Len(op.ret.data) = Len(op.chartData)
       /\ \A k \in 1..Len(op.chartData) :
             /\ op.ret.data[k].timestamp = op.chartData[k].timestamp
             /\ (op.ret.data[k].value = None) <=> (op.chartData[k].value = None)

C17_Witness ==
    /\ op.name = "getBytesChartProps"
    /\ Len(op.chartData) = 2
    /\ op.chartData[1].value = None
    /\ op.chartData[2].value = Some(<<128, 929, 1>>)
    /\ op.ret.data[1] = [timestamp |-> 60, value |-> None]
    /\ op.ret.data[2].timestamp = 120
    /\ op.ret.data[2].value # None
    /\ op.ret.unitForSet = Some("MiB")

(***************************************************************************)
(* Properties of the validation helpers                                    *)
(***************************************************************************)
\* the size of the snapshot or image a disk is created from, if there is one
SourceSizes(d, disk) ==
    IF disk.disk_source.type = "snapshot"
    THEN {d.snapshots[k].size : k \in {j \in 1..Len(d.snapshots) : d.snapshots[j].id = disk.disk_source.id}}
    ELSE IF disk.disk_source.type = "image"
    THEN {d.images[k].size : k \in {j \in 1..Len(d.images) : d.images[j].id = disk.disk_source.id}}
    ELSE {}

\* C18: errIfExists throws ObjectAlreadyExists (400) exactly when some item of
\* the collection equals the match on every key of the match;
\* errIfInvalidDiskSize throws exactly when the size is below the minimum,
\* above the maximum or below the size of the source snapshot or image; the
\* collection and the database are the same after the call either way.
C18_ValidationThrowsExactlyAndNoMutation ==
    /\ op.name = "errIfExists" =>
          /\ (op.threw # None) <=>
                \E k \in 1..Len(op.collection) :
                   \A key \in DOMAIN op.match : op.collection[k][key] = op.match[key]
          /\ op.threw # None =>
                op.threw[1].error_code = "ObjectAlreadyExists" /\ op.threw[1].status = 400
          /\ op.after = op.collection
          /\ db = SeedDb(<<>>)
    /\ op.name = "errIfInvalidDiskSize" =>
          /\ (op.threw # None) <=>
                \/ op.disk.size[1] < MIN_DISK_SIZE_GiB
                \/ op.disk.size[1] > MAX_DISK_SIZE_GiB
                \/ op.disk.size[1] = MAX_DISK_SIZE_GiB /\ op.disk.size[2] > 0
                \/ \E z \in SourceSizes(op.before, op.disk) :
                      \/ op.disk.size[1] < z[1]
                      \/ op.disk.size[1] = z[1] /\ op.disk.size[2] < z[2]
          /\ db = op.before

\* a 1023 GiB disk from a snapshot is accepted, one byte more is not
C18_Witness ==
    /\ op.name = "errIfInvalidDiskSize"
    /\ op.disk.size = <<1023, 0>>
    /\ op.disk.disk_source = [type |-> "snapshot", id |-> "s1"]
    /\ op.threw = None

(***************************************************************************)
(* Properties of the unit test hooks                                       *)
(***************************************************************************)
\* C19: every test starts from the seeded database: whatever the tests before
\* it did to the database, the afterEach hook has reset it (and has unmounted
\* what was rendered and removed the runtime handlers) before the next test
\* starts.
C19_EveryTestStartsSeeded ==
    [][(suite.pc = "ready" /\ suite'.pc = "running") =>
          /\ db' = SeededDb
          /\ suite'.mounted = 0
          /\ suite'.handlers = 0]_vars

\* a test runs on the seeded database right after a test that changed it
C19_Witness ==
    /\ suite.pc = "running"
    /\ suite.ran >= 2
    /\ suite.dirtied = suite.ran - 1
    /\ db = SeededDb

(***************************************************************************)
(* Properties of the synthetic metrics generator                           *)
(***************************************************************************)
Generated == gen.pc \in {"generated", "repeated"}

\* C11: each of the 1000 values returned by generateUtilization lies in
\* [0, cap]: the walk never goes below 0 and the normalised output never
\* exceeds the capacity of the metric kind.
C11_OutputWithinCapacity ==
    Generated =>
       /\ Len(gen.out.normalizedValues) = 1000
       /\ \A k \in 1..Len(gen.out.values) : gen.out.values[k] >= 0
       /\ \A k \in 1..Len(gen.out.normalizedValues) :
             /\ gen.out.den > 0
             /\ gen.out.normalizedValues[k] >= 0
             /\ gen.out.normalizedValues[k] <= gen.out.cap * gen.out.den

\* a walk that was stopped at 0, returned for a capacity above 0
C11_Witness ==
    /\ gen.pc = "generated"
    /\ gen.out.cap > 0
    /\ \E k \in 1..Len(gen.out.values) : gen.out.values[k] = 0
    /\ \E k \in 1..Len(gen.out.values) : gen.out.values[k] > 500
    /\ \E k \in 1..Len(gen.out.normalizedValues) : gen.out.normalizedValues[k] > 0

\* C12: two calls with the same metric name, window and sleds and the same
\* adjusted start time walk the same values before normalisation, whatever
\* the time of the call and the draw of Math.random; the scaling factor of
\* each call lies in [0.33, 1.0), and the values returned differ by nothing
\* but that factor.
C12_SameWalkUpToScaling ==
    (gen.pc = "repeated" /\ gen.prev.out.adjStartTime = gen.out.adjStartTime) =>
       /\ gen.prev.out.values = gen.out.values
       /\ gen.prev.out.currentMax = gen.out.currentMax
       /\ \A f \in {gen.prev.out.randomFactor, gen.out.randomFactor} :
             33 * f.den <= 100 * f.num /\ f.num < f.den
       /\ gen.prev.random = gen.random =>
             gen.prev.out.normalizedValues = gen.out.normalizedValues
       /\ gen.metricName # "cpus_provisioned" =>
             /\ gen.out.den * gen.prev.out.randomFactor.den
                   = gen.prev.out.den * gen.out.randomFactor.den
             /\ \A k \in 1..Len(gen.out.normalizedValues) :
                   gen.out.normalizedValues[k] * gen.prev.out.randomFactor.num
                      = gen.prev.out.normalizedValues[k] * gen.out.randomFactor.num

\* the same window asked for a day later and with another draw: the same
\* walk, scaled differently
C12_Witness ==
    /\ gen.pc = "repeated"
    /\ gen.prev.now # gen.now
    /\ gen.prev.random # gen.random
    /\ gen.prev.out.adjStartTime = gen.out.adjStartTime
    /\ gen.out.values = gen.prev.out.values
    /\ \E k \in 1..Len(gen.out.values) : gen.out.values[k] # 500
    /\ gen.out.normalizedValues # gen.prev.out.normalizedValues

\* C20: handleMetrics orders before it limits: with order descending and
\* limit n the items are the last min(n, total) generated points, latest
\* first; otherwise the first min(n, total) points in time order; without a
\* limit all of them; and nothing is generated when endTime <= startTime.
C20_OrderBeforeLimit ==
    gen.pc = "handled" =>
       LET q == gen.query
           endTime == IF q.endTime = None THEN gen.now ELSE q.endTime[1]
           startTime == IF q.startTime = None THEN endTime - 86400 ELSE q.startTime[1]
           r == gen.response
       IN  IF endTime <= startTime
           THEN r.items = <<>> /\ r.generated = None
           ELSE /\ r.generated # None
                /\ LET g == r.generated[1]
                       total == Len(g)
                       n == IF q.limit = None THEN total
                            ELSE IF q.limit[1] < total THEN q.limit[1] ELSE total
                   IN  /\ \A k \in 1..total : g[k].index = k
                       /\ Len(r.items) = n
                       /\ \A k \in 1..n :
                             r.items[k] = IF q.order = Some("descending")
                                          THEN g[total + 1 - k] ELSE g[k]

C20_Witness ==
    /\ gen.pc = "handled"
    /\ gen.query.order = Some("descending")
    /\ gen.query.limit = Some(3)
    /\ Len(gen.response.items) = 3
    /\ gen.response.items[1].index = 1000
    /\ gen.response.items[3].index = 998

\* C21: for every start time, end time and datapoint count,
\* getTimePropsForOxqlQuery returns meanWithinSeconds = max(5, round(duration
\* in seconds / datapoints)), hence never below 5, and an adjustedStart that is
\* exactly 2 * meanWithinSeconds seconds earlier than the requested start
\* time, so always strictly before it.  The rounded quotient is stated here by
\* its defining inequality: r is the integer with r - 1/2 <= d / n < r + 1/2,
\* where d is the number of whole seconds from start to end.
WholeSeconds(ms) ==
    LET a == IF ms < 0 THEN -ms ELSE ms
        q == CHOOSE k \in 0..604800 : k * 1000 <= a /\ a < (k + 1) * 1000
    IN  IF ms < 0 THEN -q ELSE q

IsRounded(r, d, n) == 2 * r * n - n <= 2 * d /\ 2 * d < 2 * r * n + n

C21_MeanWindowAndAdjustedStart ==
    op.name = "getTimePropsForOxqlQuery" =>
       LET d == WholeSeconds(op.endTime - op.startTime)
           n == IF op.datapoints = None THEN 60 ELSE op.datapoints[1]
           m == op.ret.meanWithinSeconds
       IN  /\ m >= 5
           /\ m > 5 => IsRounded(m, d, n)
           /\ m = 5 => \E r \in -60..5 : IsRounded(r, d, n)
           /\ op.startTime - op.ret.adjustedStart = 2 * m * 1000
           /\ op.ret.adjustedStart < op.startTime

\* a one-hour range at the default 60 datapoints plus 30 s: 3630 / 60 = 60.5
\* rounds up to 61, and the start moves back by 122 s
C21_Witness ==
    /\ op.name = "getTimePropsForOxqlQuery"
    /\ op.startTime = 3600000
    /\ op.endTime = 7230000
    /\ op.datapoints = None
    /\ op.ret.meanWithinSeconds = 61
    /\ op.ret.adjustedStart = 3478000

\* C22: every page returned by paginated is a contiguous slice of the
\* collection holding at most `limit` items, where a missing, null or zero
\* limit counts as 100; nextPage is null exactly when the returned page
\* reaches the end of the collection, and otherwise names an item that exists
\* in the collection; the input collection is not modified.
PageIsBoundedSlice ==
    LET n == Len(result.items)
        most == IF params.limit = None \/ params.limit = Some(0)
                THEN 100 ELSE params.limit[1]
    IN  /\ n <= most
        /\ \E s \in 0..(Len(items) - n) :
              /\ result.items = SubSeq(items, s + 1, s + n)
              /\ (result.nextPage = None) <=> (s + n = Len(items))
        /\ result.nextPage # None =>
              \E k \in 1..Len(items) : items[k].id = result.nextPage[1]

C22_PageIsBoundedSlice ==
    [][calls' = calls + 1 => (items' = items /\ PageIsBoundedSlice')]_vars

\* 101 items and no limit: the page holds the first 100 items and nextPage
\* names the last item
C22_Witness ==
    /\ Len(items) = 101
    /\ params = [limit |-> None, pageToken |-> None]
    /\ calls = 1
    /\ Len(result.items) = 100
    /\ result.items[100] = items[100]
    /\ result.nextPage = Some("100")

====
